---------------------------- MODULE Spec2Model ----------------------------
(***************************************************************************)
(* Model of vf_analysis/preprocessing/analyze_dlm.py: the epoch filters,   *)
(* the kinematics derivation and the smoothing routine.                    *)
(*                                                                         *)
(* Numbers.  A float is modelled as an exact rational or NaN, the record   *)
(* [nan, num, den] (den > 0, lowest terms).  Arithmetic propagates NaN as  *)
(* IEEE arithmetic does and comparisons with NaN are false.  Rounding is   *)
(* not modelled.  Input times increase strictly inside an epoch, so no     *)
(* division by zero occurs and no infinity is needed.                      *)
(*                                                                         *)
(* Tables.  A DataFrame is a sequence of rows, each a record holding the   *)
(* row label ("index") and the columns; a Series is a sequence of          *)
(* [index, val].  Row labels are 0-based as in pandas.                     *)
(***************************************************************************)
EXTENDS Integers, Sequences, FiniteSets, TLC

VARIABLES
    pc,             \* position in analyze_dlm / in the smoothing call
    raw,            \* analyze_dlm argument: the raw per-frame table
    raw_truncate,   \* analyze_dlm local, line 128
    ana,            \* analyze_dlm local, lines 134-159
    ana_f,          \* analyze_dlm local, lines 162-189
    ana_ff,         \* analyze_dlm local, lines 192-195
    res,            \* first table returned
    fish_length,    \* second table returned
    sm_a,           \* smooth_series_ML argument a
    sm_WSZ,         \* smooth_series_ML argument WSZ
    sm_res          \* outcome of the smooth_series_ML call

vars == <<pc, raw, raw_truncate, ana, ana_f, ana_ff, res, fish_length,
          sm_a, sm_WSZ, sm_res>>

pipeVars == <<raw, raw_truncate, ana, ana_f, ana_ff, res, fish_length>>
smVars == <<sm_a, sm_WSZ, sm_res>>

---------------------------------------------------------------------------
(* Bounds of the model                                                     *)

MaxEpochs == 2      \* epochs in an input table
MaxSmoothLen == 9   \* length of the sequences handed to smooth_series_ML

---------------------------------------------------------------------------
(* Exact rational arithmetic with NaN                                      *)

Abs(n) == IF n < 0 THEN -n ELSE n

\* a sequence given as a function on 1..n, as a tuple
Tup(f) == f \o << >>

\* F(v) and F(u, v), the arguments evaluated once beforehand, so that a table
\* or a column handed on is computed a single time
Once(v, F(_)) == CHOOSE r \in {F(x) : x \in {v}} : TRUE
Once2(u, v, F(_, _)) == CHOOSE r \in {F(x, y) : x \in {u}, y \in {v}} : TRUE

RECURSIVE GCD(_, _)
GCD(m, n) == IF n = 0 THEN m ELSE GCD(n, m % n)

NaN == [nan |-> TRUE, num |-> 0, den |-> 1]

Rat(n, d) ==
    LET g == GCD(Abs(n), Abs(d))
        s == IF d < 0 THEN -1 ELSE 1
    IN  [nan |-> FALSE, num |-> s * (n \div g), den |-> s * (d \div g)]

Int2Num(n) == [nan |-> FALSE, num |-> n, den |-> 1]

Add(p, q) ==
    IF p.nan \/ q.nan THEN NaN
    ELSE IF p.den = q.den THEN Rat(p.num + q.num, p.den)
    ELSE LET l == (p.den \div GCD(p.den, q.den)) * q.den
         IN  Rat(p.num * (l \div p.den) + q.num * (l \div q.den), l)

Neg(p) == IF p.nan THEN NaN ELSE [nan |-> FALSE, num |-> -p.num, den |-> p.den]

Sub(p, q) == Add(p, Neg(q))

Mul(p, q) ==
    IF p.nan \/ q.nan THEN NaN
    ELSE LET g1 == GCD(Abs(p.num), q.den)
             g2 == GCD(Abs(q.num), p.den)
         IN  [nan |-> FALSE,
              num |-> (p.num \div g1) * (q.num \div g2),
              den |-> (p.den \div g2) * (q.den \div g1)]

\* q is never zero on the inputs of the model
Div(p, q) ==
    IF p.nan \/ q.nan THEN NaN
    ELSE Mul(p, Rat(q.den, q.num))

NumAbs(p) == IF p.nan THEN NaN ELSE [nan |-> FALSE, num |-> Abs(p.num), den |-> p.den]

\* comparisons: false as soon as one side is NaN
Le(p, q) == ~p.nan /\ ~q.nan /\ p.num * q.den <= q.num * p.den
Lt(p, q) == ~p.nan /\ ~q.nan /\ p.num * q.den < q.num * p.den
Ge(p, q) == Le(q, p)

\* sqrt(n) for a perfect square n >= 0 (the inputs of the model keep every
\* norm rational)
ISqrt(n) == CHOOSE r \in 0..n : r * r = n

\* np.linalg.norm of the 2-vector (p, q)
Norm2(p, q) ==
    IF p.nan \/ q.nan THEN NaN
    ELSE IF q.num = 0 THEN NumAbs(p)
    ELSE IF p.num = 0 THEN NumAbs(q)
    ELSE LET s == Add(Mul(p, p), Mul(q, q))
         IN  Rat(ISqrt(s.num), ISqrt(s.den))

\* the larger of two numbers, a NaN giving way to the other one
NanMax2(p, q) == IF p.nan THEN q ELSE IF q.nan THEN p ELSE IF Lt(p, q) THEN q ELSE p

\* np.nanmax of a sequence of numbers: the maximum of the defined values,
\* NaN when there is none (s[lo..hi], by halves)
RECURSIVE NanMaxRange(_, _, _)
NanMaxRange(s, lo, hi) ==
    IF lo > hi THEN NaN
    ELSE IF lo = hi THEN s[lo]
    ELSE LET mid == (lo + hi) \div 2
         IN  NanMax2(NanMaxRange(s, lo, mid), NanMaxRange(s, mid + 1, hi))

nanmax(s0) == Once(s0, LAMBDA s : NanMaxRange(s, 1, Len(s)))

---------------------------------------------------------------------------
(* Constants, lines 29-45                                                   *)

FRAM_RATE == 40
FRAME_INTERVAL == Rat(1, FRAM_RATE)
MIN_DUR == Mul(Rat(5, 2), Int2Num(FRAM_RATE))
MAX_FISH == 1
MAX_INST_DISPL == 35
MAX_ANG_VEL == 100
MAX_ANG_ACCEL == 32000
MAX_DELTA_T == Rat(5, 100)
MAX_DIST_TRAVEL == 26
EPOCH_BUF == 2
SCALE == 60
SM_WINDOW_FOR_FILTER == 9
SM_WINDOW_FOR_ANGVEL == 3

---------------------------------------------------------------------------
(* smooth_series_ML, lines 53-65                                            *)

\* values of a Series, positionally
Vals(ser0) == Once(ser0, LAMBDA ser : Tup([i \in 1..Len(ser) |-> ser[i].val]))

\* sum of v[lo..hi], NaN as soon as one term is NaN
RECURSIVE SumRange(_, _, _)
SumRange(v, lo, hi) ==
    IF lo > hi THEN Int2Num(0) ELSE Add(v[lo], SumRange(v, lo + 1, hi))

\* np.convolve(a, np.ones(WSZ), 'valid'): numpy swaps the arguments when the
\* second is the longer one, so the result has max - min + 1 entries
ConvolveValid(v, WSZ) ==
    IF Len(v) >= WSZ
    THEN Tup([k \in 1..(Len(v) - WSZ + 1) |-> SumRange(v, k, k + WSZ - 1)])
    ELSE Tup([k \in 1..(WSZ - Len(v) + 1) |-> SumRange(v, 1, Len(v))])

\* Series.cumsum (np.cumsum dispatches to it): skipna, a NaN entry stays NaN
\* and does not enter the running sum
RECURSIVE SkipSum(_, _)
SkipSum(v, k) ==
    IF k = 0 THEN Int2Num(0)
    ELSE IF v[k].nan THEN SkipSum(v, k - 1)
    ELSE Add(v[k], SkipSum(v, k - 1))

Cumsum(v0) ==
    Once(v0, LAMBDA v :
        Tup([k \in 1..Len(v) |-> IF v[k].nan THEN NaN ELSE SkipSum(v, k)]))

\* s[::2]
EveryOther(s0) ==
    Once(s0, LAMBDA s : Tup([k \in 1..((Len(s) + 1) \div 2) |-> s[2 * k - 1]]))

Reverse(s0) ==
    Once(s0, LAMBDA s : Tup([k \in 1..Len(s) |-> s[Len(s) + 1 - k]]))

Min(m, n) == IF m < n THEN m ELSE n

\* the outcome of a call that raised
Raised == [ok |-> FALSE, ser |-> << >>]

\* r = np.arange(1, WSZ-1, 2): 1, 3, ..., its length
RLen(WSZ) == IF WSZ < 2 THEN 0 ELSE (WSZ - 1) \div 2

\* line 62: np.cumsum(a[:WSZ-1])[::2], before the division by r
StartSums(v, WSZ) == EveryOther(Cumsum(SubSeq(v, 1, Min(Len(v), WSZ - 1))))

\* line 63: np.cumsum(a[:-WSZ:-1])[::2], before the division by r
StopSums(v, WSZ) ==
    EveryOther(Cumsum(SubSeq(Reverse(v), 1, Min(Len(v), WSZ - 1))))

\* elementwise division by r (both of length RLen(WSZ))
OverR(sums0, WSZ) ==
    Once(sums0, LAMBDA sums :
        Tup([k \in 1..RLen(WSZ) |-> Div(sums[k], Int2Num(2 * k - 1))]))

SmoothStop_unflipped(v, WSZ) == OverR(StopSums(v, WSZ), WSZ)

\* line 63: stop = (.../r)[::-1]
SmoothStop(v, WSZ) == Reverse(OverR(StopSums(v, WSZ), WSZ))

\* line 60: out0
SmoothMiddle(v, WSZ) ==
    Once(ConvolveValid(v, WSZ), LAMBDA conv :
        Tup([k \in 1..Len(conv) |-> Div(conv[k], Int2Num(WSZ))]))

\* lines 64-65: the Series of the values out on the index of a
SeriesOn(a, out0) ==
    Once(out0, LAMBDA out :
        IF Len(out) # Len(a) THEN Raised \* data and index of different lengths
        ELSE [ok |-> TRUE,
              ser |-> Tup([i \in 1..Len(a) |->
                              [index |-> a[i].index, val |-> out[i]]])])

smooth_series_ML(a0, WSZ) ==
    Once2(a0, Vals(a0), LAMBDA a, v :
        IF Len(v) = 0 THEN Raised            \* np.convolve: a cannot be empty
        ELSE IF Len(StartSums(v, WSZ)) # RLen(WSZ)
             THEN Raised                     \* Series / ndarray of another length
        ELSE SeriesOn(a, OverR(StartSums(v, WSZ), WSZ)
                         \o SmoothMiddle(v, WSZ)
                         \o SmoothStop(v, WSZ)))

---------------------------------------------------------------------------
(* A call of smooth_series_ML on a bounded sequence                        *)

SmoothValues == {NaN, Int2Num(1), Int2Num(2)}
SmoothWindows == {SM_WINDOW_FOR_ANGVEL, 5, SM_WINDOW_FOR_FILTER}

SeqsUpTo(S, n) == UNION {[1..k -> S] : k \in 0..n}

NoTable == << >>

IdlePipeline ==
    /\ raw = NoTable /\ raw_truncate = NoTable /\ ana = NoTable
    /\ ana_f = NoTable /\ ana_ff = NoTable /\ res = NoTable
    /\ fish_length = NoTable

InitSmooth ==
    /\ pc = "smooth"
    /\ \E v \in SeqsUpTo(SmoothValues, MaxSmoothLen) :
           \* the labels of a Series that lost its first row
           sm_a = Tup([i \in 1..Len(v) |-> [index |-> i, val |-> v[i]]])
    /\ sm_WSZ \in SmoothWindows
    /\ sm_res = Raised
    /\ IdlePipeline

CallSmooth ==
    /\ pc = "smooth"
    /\ sm_res' = smooth_series_ML(sm_a, sm_WSZ)
    /\ pc' = IF sm_res'.ok THEN "smooth_returned" ELSE "smooth_raised"
    /\ UNCHANGED <<sm_a, sm_WSZ>>
    /\ UNCHANGED pipeVars

NextSmooth == CallSmooth

SpecSmooth == InitSmooth /\ [][NextSmooth]_vars

---------------------------------------------------------------------------
(* Properties of smooth_series_ML                                          *)

SmoothCalled == pc \in {"smooth_returned", "smooth_raised"}

AllDefined(s) == \A i \in 1..Len(s) : ~s[i].val.nan

\* the mean of v[lo..hi]
MeanOf(v, lo, hi) == Div(SumRange(v, lo, hi), Int2Num(hi - lo + 1))

C6_ShortIsAllUndefined ==
    (SmoothCalled /\ Len(sm_a) < sm_WSZ)
    => /\ sm_res.ok
       /\ Len(sm_res.ser) = Len(sm_a)
       /\ \A i \in 1..Len(sm_res.ser) : sm_res.ser[i].val.nan

---------------------------------------------------------------------------
(* Grouping, lines 49-51                                                    *)

Max(S) == CHOOSE m \in S : \A k \in S : k <= m

Positions(df) == Tup([i \in 1..Len(df) |-> i])

\* the rows of df at the positions at, in order
RowsAt(df, at0) == Once(at0, LAMBDA at : Tup([k \in 1..Len(at) |-> df[at[k]]]))

\* position of the previous row of the same epoch, 0 for an epoch's first row
PrevRow(df, i) ==
    IF i > 1 /\ df[i - 1].epochNum = df[i].epochNum THEN i - 1
    ELSE Once({j \in 1..(i - 1) : df[j].epochNum = df[i].epochNum},
              LAMBDA S : IF S = {} THEN 0 ELSE Max(S))

\* the keys of groupby('epochNum', sort=True): ascending
RECURSIVE SortedKeys(_)
SortedKeys(S) ==
    IF S = {} THEN << >>
    ELSE Append(SortedKeys(S \ {Max(S)}), Max(S))

GroupKeys_sorted(df) == SortedKeys({df[i].epochNum : i \in 1..Len(df)})

\* the keys of groupby('epochNum', sort=False): in order of first occurrence
GroupKeys(df0) ==
    Once(df0, LAMBDA df :
        Once(SelectSeq(Positions(df), LAMBDA i : PrevRow(df, i) = 0),
             LAMBDA firsts :
                Tup([k \in 1..Len(firsts) |-> df[firsts[k]].epochNum])))

\* grp_by_epoch(df): the groups in key order, each with the rows of its epoch
grp_by_epoch(df0) ==
    Once2(df0, GroupKeys(df0), LAMBDA df, keys :
        Tup([k \in 1..Len(keys) |->
                [epochNum |-> keys[k],
                 g |-> SelectSeq(df, LAMBDA r : r.epochNum = keys[k])]]))

\* GroupBy.filter(func): the rows of the epochs kept, those whose group passes
\* func, in the order of df
GroupFilter(df0, kept0) ==
    Once2(df0, kept0, LAMBDA df, kept :
        SelectSeq(df, LAMBDA r : r.epochNum \in kept))

\* the positions of the rows of epoch e, ascending
EpochPositions(df, e) == SelectSeq(Positions(df), LAMBDA i : df[i].epochNum = e)

\* how many of the ascending positions P are <= i
Rank(P, i) ==
    IF P[Len(P)] - P[1] + 1 = Len(P) THEN i - P[1] + 1
    ELSE Cardinality({k \in 1..Len(P) : P[k] <= i})

\* the positions of the rows of every epoch, in key order
AllEpochPositions(df, keys) ==
    Tup([k \in 1..Len(keys) |-> EpochPositions(df, keys[k])])

\* for every row, the positions of the rows of its epoch
RowGroups(df0) ==
    Once2(df0, GroupKeys(df0), LAMBDA df, keys :
        Once(AllEpochPositions(df, keys), LAMBDA pos :
            Tup([i \in 1..Len(df) |->
                    pos[CHOOSE k \in 1..Len(keys) : keys[k] = df[i].epochNum]])))

\* GroupBy.cumcount(): rows of the same epoch before this one
cumcount(df) ==
    Once(RowGroups(df), LAMBDA rg :
        Tup([i \in 1..Len(rg) |-> Rank(rg[i], i) - 1]))

\* GroupBy.cumcount(ascending=False): rows of the same epoch after this one
cumcount_descending(df) ==
    Once(RowGroups(df), LAMBDA rg :
        Tup([i \in 1..Len(rg) |-> Len(rg[i]) - Rank(rg[i], i)]))

\* one column of a table, positionally
Col(df0, name) == Once(df0, LAMBDA df : Tup([i \in 1..Len(df) |-> df[i][name]]))

IntCol(df0, name) ==
    Once(df0, LAMBDA df : Tup([i \in 1..Len(df) |-> Int2Num(df[i][name])]))

---------------------------------------------------------------------------
(* raw_filter, lines 68-82                                                  *)

\* lines 74-75: the rows at least EPOCH_BUF rows away from both ends of their
\* epoch
TrimBuffer(df0) ==
    Once(df0, LAMBDA df :
        Once2(cumcount(df), cumcount_descending(df), LAMBDA up, down :
            RowsAt(df, SelectSeq(Positions(df), LAMBDA i :
                            down[i] >= EPOCH_BUF /\ up[i] >= EPOCH_BUF))))

KeepRaw_anyFishNum(g) == Ge(Int2Num(Len(g)), MIN_DUR)

\* lines 78-79: the predicate of the filter
KeepRaw(g) ==
    /\ Ge(Int2Num(Len(g)), MIN_DUR)
    /\ Lt(nanmax(IntCol(g, "fishNum")), Int2Num(MAX_FISH))

\* lines 77-80: the epochs whose group passes
RawKept(df) ==
    Once(grp_by_epoch(df), LAMBDA grps :
        {grps[k].epochNum : k \in {j \in 1..Len(grps) : KeepRaw(grps[j].g)}})

raw_filter(df) == Once(TrimBuffer(df), LAMBDA b : GroupFilter(b, RawKept(b)))

---------------------------------------------------------------------------
(* Input tables                                                            *)
(*                                                                         *)
(* An input table is a sequence of at most MaxEpochs epochs.  Every epoch  *)
(* is a steady swim to the right, one pixel and one frame interval per     *)
(* frame, head in front of the body, with at most one disturbance described*)
(* by its shape [len, kind, pos, amt]: kind says what is disturbed at frame*)
(* pos (1-based inside the epoch) and amt by how much.                     *)

LongLen == (5 * FRAM_RATE) \div 2 + 2 * EPOCH_BUF   \* the shortest epoch kept

Shape(len, kind, pos, amt) == [len |-> len, kind |-> kind, pos |-> pos, amt |-> amt]

\* frame k of an epoch of shape sh whose first frame is row `first` (0-based)
\* of the table
Frame(sh, e, first, k) ==
    LET from == (k >= sh.pos)
        at == (k = sh.pos)
        tick == first + k - 1 + (IF sh.kind = "gap" /\ from THEN sh.amt ELSE 0)
        x == 100 + k + (IF sh.kind = "jump" /\ from THEN sh.amt ELSE 0)
        y == 50 + (IF sh.kind = "sink" /\ from THEN sh.amt ELSE 0)
        a == 10 + (IF sh.kind = "turn" /\ from THEN sh.amt
                   ELSE IF sh.kind = "ramp" /\ from
                        THEN sh.amt * (Min(k, sh.pos + 11) - sh.pos + 1)
                   ELSE IF sh.kind = "flick" /\ at THEN sh.amt ELSE 0)
    IN  [index |-> first + k - 1,
         epochNum |-> e,
         time |-> Mul(Int2Num(tick), FRAME_INTERVAL),
         absx |-> IF sh.kind = "blank" /\ at THEN NaN ELSE Int2Num(x),
         absy |-> Int2Num(y),
         absHeadx |-> Int2Num(IF sh.kind = "back" THEN x - sh.amt ELSE x + 5),
         absHeady |-> Int2Num(y),
         ang |-> Int2Num(a),
         fishNum |-> IF sh.kind = "fish" /\ at THEN sh.amt
                     ELSE IF sh.kind = "crowd" THEN sh.amt ELSE 0,
         fishLen |-> Int2Num(240 + 6 * (k % 4))]

\* the table of the epochs of the given shapes; the epoch numbers decrease
\* along the table
RECURSIVE MakeTable(_, _, _)
MakeTable(shapes, j, first) ==
    IF j > Len(shapes) THEN << >>
    ELSE Tup([k \in 1..shapes[j].len |->
                 Frame(shapes[j], 10 * (Len(shapes) + 1 - j), first, k)])
         \o MakeTable(shapes, j + 1, first + shapes[j].len)

IdleSmooth == sm_a = << >> /\ sm_WSZ = 0 /\ sm_res = Raised

---------------------------------------------------------------------------
(* The structural filter alone                                             *)

RawShapes ==
    {Shape(n, "none", 0, 0) : n \in {2 * EPOCH_BUF, 2 * EPOCH_BUF + 1,
                                     LongLen - 1, LongLen}}
    \cup {Shape(LongLen, "crowd", 0, 1)}
    \cup {Shape(LongLen, "fish", p, 2) :
             p \in {EPOCH_BUF, EPOCH_BUF + 1,
                    LongLen - EPOCH_BUF, LongLen - EPOCH_BUF + 1}}

InitRaw ==
    /\ pc = "start"
    /\ \E shapes \in SeqsUpTo(RawShapes, MaxEpochs) :
           /\ shapes # << >>
           /\ raw = MakeTable(shapes, 1, 0)
    /\ raw_truncate = NoTable /\ ana = NoTable /\ ana_f = NoTable
    /\ ana_ff = NoTable /\ res = NoTable /\ fish_length = NoTable
    /\ IdleSmooth

\* line 128: .reset_index().rename(columns={'index': 'oriIndex'}): the old
\* labels become the column oriIndex, the new labels count from 0
ResetIndexAsOriIndex(f0) ==
  Once(f0, LAMBDA f :
    Tup([i \in 1..Len(f) |->
            [index |-> i - 1,
             oriIndex |-> f[i].index,
             epochNum |-> f[i].epochNum,
             time |-> f[i].time,
             absx |-> f[i].absx,
             absy |-> f[i].absy,
             absHeadx |-> f[i].absHeadx,
             absHeady |-> f[i].absHeady,
             ang |-> f[i].ang,
             fishNum |-> f[i].fishNum,
             fishLen |-> f[i].fishLen]]))

\* line 128: raw_truncate = raw_filter(raw).reset_index().rename(...)
RawFilter ==
    /\ pc = "start"
    /\ raw_truncate' = ResetIndexAsOriIndex(raw_filter(raw))
    /\ pc' = "truncated"
    /\ UNCHANGED <<raw, ana, ana_f, ana_ff, res, fish_length>>
    /\ UNCHANGED smVars

NextRaw == RawFilter

SpecRaw == InitRaw /\ [][NextRaw]_vars

---------------------------------------------------------------------------
(* Group-wise helpers of the kinematics                                    *)

\* sum of the defined values of v[lo..hi] (skipna), by halves
RECURSIVE NanSum(_, _, _)
NanSum(v, lo, hi) ==
    IF lo > hi THEN Int2Num(0)
    ELSE IF lo = hi THEN (IF v[lo].nan THEN Int2Num(0) ELSE v[lo])
    ELSE Add(NanSum(v, lo, (lo + hi) \div 2),
             NanSum(v, (lo + hi) \div 2 + 1, hi))

\* Series.mean(): the mean of the defined values, NaN when there is none
mean(v0) ==
    Once2(v0, Cardinality({i \in 1..Len(v0) : ~v0[i].nan}), LAMBDA v, cnt :
        IF cnt = 0 THEN NaN ELSE Div(NanSum(v, 1, Len(v)), Int2Num(cnt)))

\* the difference of v[i] to the value at position p, NaN when p is 0
DiffTo(v, i, p) == IF p = 0 THEN NaN ELSE Sub(v[i], v[p])

\* GroupBy.diff() of the values v (one per row of df): the difference to the
\* previous row of the same epoch, NaN on an epoch's first row
GroupDiff(df0, v0) ==
    Once2(df0, v0, LAMBDA df, v :
        Tup([i \in 1..Len(df) |-> DiffTo(v, i, PrevRow(df, i))]))

\* GroupBy.first() of column col on the group at positions P: the first
\* defined value, NaN when there is none
FirstValid(df, P, col) ==
    IF ~df[P[1]][col].nan THEN df[P[1]][col]
    ELSE Once({k \in 1..Len(P) : ~df[P[k]][col].nan}, LAMBDA D :
            IF D = {} THEN NaN ELSE df[P[-Max({-k : k \in D})]][col])

TransformFirst_lastRow(df, rg, col) ==
    Tup([i \in 1..Len(df) |-> df[rg[i][Len(rg[i])]][col]])

\* GroupBy.transform('first') of column col; rg is RowGroups(df)
TransformFirst(df, rg, col) ==
    Tup([i \in 1..Len(df) |-> FirstValid(df, rg[i], col)])

\* the value of the Series ser at label l, NaN when the label is missing
\* (pandas aligns on labels when a Series is assigned); hint is where the
\* label is looked for first
AtLabel(ser, l, hint) ==
    IF hint \in 1..Len(ser) /\ ser[hint].index = l THEN ser[hint].val
    ELSE Once({k \in 1..Len(ser) : ser[k].index = l}, LAMBDA S :
            IF S = {} THEN NaN ELSE ser[CHOOSE k \in S : TRUE].val)

---------------------------------------------------------------------------
(* analyze_dlm, lines 134-159: time differences and centered coordinates   *)

\* lines 154-157: the table's values minus the first values of the epoch, as a
\* new table labelled 0, 1, ...
CenterRows(rt, fx, fy, fhx, fhy, fa) ==
    Tup([i \in 1..Len(rt) |->
            [index |-> i - 1,
             x |-> Sub(rt[i].absx, fx[i]),
             y |-> Sub(rt[i].absy, fy[i]),
             headx |-> Sub(rt[i].absHeadx, fhx[i]),
             heady |-> Sub(rt[i].absHeady, fhy[i]),
             centeredAng |-> Sub(rt[i].ang, fa[i])]])

centered_coordinates(rt0) ==
    Once2(rt0, RowGroups(rt0), LAMBDA rt, rg :
        Once2(TransformFirst(rt, rg, "absx"), TransformFirst(rt, rg, "absy"),
              LAMBDA fx, fy :
        Once2(TransformFirst(rt, rg, "absHeadx"),
              TransformFirst(rt, rg, "absHeady"), LAMBDA fhx, fhy :
        Once(TransformFirst(rt, rg, "ang"), LAMBDA fa :
            CenterRows(rt, fx, fy, fhx, fhy, fa)))))

NoCoordinates ==
    [x |-> NaN, y |-> NaN, headx |-> NaN, heady |-> NaN, centeredAng |-> NaN]

\* the row of cc labelled l (cc is labelled 0, 1, ...)
RowAtLabel(cc, l) == IF l + 1 \in 1..Len(cc) THEN cc[l + 1] ELSE NoCoordinates

\* lines 136-141 and 159: one row of ana, the columns carried over, deltaT
\* and the centered coordinates c joined to it
AnaRow(r, dT, c) ==
    [index |-> r.index,
     oriIndex |-> r.oriIndex,
     epochNum |-> r.epochNum,
     ang |-> r.ang,
     absy |-> r.absy,
     deltaT |-> dT,
     x |-> c.x,
     y |-> c.y,
     headx |-> c.headx,
     heady |-> c.heady,
     centeredAng |-> c.centeredAng]

\* lines 136-159: ana; the centered coordinates are joined on the row labels
\* (absTime is left out)
Kinematics1Table(rt0) ==
    Once(rt0, LAMBDA rt :
        Once2(GroupDiff(rt, Col(rt, "time")), centered_coordinates(rt),
              LAMBDA dT, cc :
            Tup([i \in 1..Len(rt) |->
                    AnaRow(rt[i], dT[i], RowAtLabel(cc, rt[i].index))])))

---------------------------------------------------------------------------
(* dur_y_x_filter, lines 84-98                                              *)

\* line 87
KeepDeltaT(g) == Le(nanmax(Col(g, "deltaT")), MAX_DELTA_T)

\* line 95
KeepDirection(g) ==
    Ge(Mul(Sub(mean(Col(g, "headx")), mean(Col(g, "x"))), g[Len(g)].x),
       Int2Num(0))

\* lines 86-92: the epochs whose group passes
DeltaTKept(df) ==
    Once(grp_by_epoch(df), LAMBDA grps :
        {grps[k].epochNum : k \in {j \in 1..Len(grps) : KeepDeltaT(grps[j].g)}})

\* lines 94-96: the epochs whose group passes
DirectionKept(df) ==
    Once(grp_by_epoch(df), LAMBDA grps :
        {grps[k].epochNum : k \in {j \in 1..Len(grps) : KeepDirection(grps[j].g)}})

dur_y_x_filter(df) ==
    Once(GroupFilter(df, DeltaTKept(df)), LAMBDA f1 :
        GroupFilter(f1, DirectionKept(f1)))

---------------------------------------------------------------------------
(* analyze_dlm, lines 167-189: velocities, distance, displacement, angular  *)
(* velocity and acceleration                                               *)

\* np.linalg.norm(g[['x','y']], axis=1)
RadialDistance(df0) ==
    Once(df0, LAMBDA df : Tup([i \in 1..Len(df) |-> Norm2(df[i].x, df[i].y)]))

\* lines 168-180: one row with its new columns, from the group-wise
\* differences of x, y, the radial distance and ang
DerivedRow(r, dx, dy, dr, da) ==
    [index |-> r.index,
     oriIndex |-> r.oriIndex,
     epochNum |-> r.epochNum,
     ang |-> r.ang,
     absy |-> r.absy,
     deltaT |-> r.deltaT,
     x |-> r.x,
     y |-> r.y,
     headx |-> r.headx,
     heady |-> r.heady,
     centeredAng |-> r.centeredAng,
     xvel |-> Div(dx, r.deltaT),
     yvel |-> Div(dy, r.deltaT),
     dist |-> Norm2(dx, dy),
     displ |-> dr,
     angVel |-> Div(da, r.deltaT)]

\* lines 168-180
Kinematics2Base(af0) ==
    Once(af0, LAMBDA af :
        Once2(GroupDiff(af, Col(af, "x")), GroupDiff(af, Col(af, "y")),
              LAMBDA dx, dy :
        Once2(GroupDiff(af, RadialDistance(af)), GroupDiff(af, Col(af, "ang")),
              LAMBDA dr, da :
            Tup([i \in 1..Len(af) |->
                    DerivedRow(af[i], dx[i], dy[i], dr[i], da[i])]))))

\* the column col of the rows g as a Series
SeriesOf(g0, col) ==
    Once(g0, LAMBDA g :
        Tup([i \in 1..Len(g) |-> [index |-> g[i].index, val |-> g[i][col]]]))

\* line 186, per group: smooth_series_ML(g.tail(len(g)-1)['angVel'], 3)
SmoothedAngVel(g) ==
    smooth_series_ML(SeriesOf(SubSeq(g, 2, Len(g)), "angVel"), SM_WINDOW_FOR_ANGVEL)

\* line 186: the smoothing outcomes of all groups, in group order
SmoothedGroups(grps0) ==
    Once(grps0, LAMBDA grps :
        Tup([k \in 1..Len(grps) |-> SmoothedAngVel(grps[k].g)]))

\* pd.concat of the Series of the outcomes from the k-th on
RECURSIVE ConcatSeries(_, _)
ConcatSeries(outs, k) ==
    IF k > Len(outs) THEN << >>
    ELSE outs[k].ser \o ConcatSeries(outs, k + 1)

\* lines 182-189: one row with angVelSmoothed (the Series sm, aligned on the
\* row labels) and angAccel
SmoothedRow(r, sm, i, dv) ==
    [index |-> r.index,
     oriIndex |-> r.oriIndex,
     epochNum |-> r.epochNum,
     ang |-> r.ang,
     absy |-> r.absy,
     deltaT |-> r.deltaT,
     x |-> r.x,
     y |-> r.y,
     headx |-> r.headx,
     heady |-> r.heady,
     centeredAng |-> r.centeredAng,
     xvel |-> r.xvel,
     yvel |-> r.yvel,
     dist |-> r.dist,
     displ |-> r.displ,
     angVel |-> r.angVel,
     angVelSmoothed |-> AtLabel(sm, r.index, i),
     angAccel |-> Div(dv, r.deltaT)]

\* the table b with the Series sm assigned; the row at position i of b is
\* looked for around position i - (groups before it) of sm first
WithSmoothed(b, sm, dv) ==
    Tup([i \in 1..Len(b) |->
            SmoothedRow(b[i], sm,
                        i - Cardinality({j \in 1..i : PrevRow(b, j) = 0}),
                        dv[i])])

\* lines 167-189, with the number of groups; pd.concat raises on an empty
\* list of groups, and a raising smooth_series_ML call ends analyze_dlm as
\* well
Kinematics2(af) ==
    Once(Kinematics2Base(af), LAMBDA b :
        Once(SmoothedGroups(grp_by_epoch(b)), LAMBDA outs :
            IF Len(outs) = 0 THEN [ok |-> FALSE, groups |-> 0, df |-> << >>]
            ELSE IF \E k \in 1..Len(outs) : ~outs[k].ok
                 THEN [ok |-> FALSE, groups |-> Len(outs), df |-> << >>]
            ELSE Once2(ConcatSeries(outs, 1), GroupDiff(b, Col(b, "angVel")),
                       LAMBDA sm, dv :
                    [ok |-> TRUE, groups |-> Len(outs),
                     df |-> WithSmoothed(b, sm, dv)])))

---------------------------------------------------------------------------
(* displ_dist_vel_filter, lines 100-121                                     *)

AbsAll(v0) == Once(v0, LAMBDA v : Tup([i \in 1..Len(v) |-> NumAbs(v[i])]))

\* the median of three defined numbers
Median3(p, q, r) ==
    IF Le(p, q) THEN (IF Le(q, r) THEN q ELSE IF Le(p, r) THEN r ELSE p)
    ELSE (IF Le(p, r) THEN p ELSE IF Le(q, r) THEN r ELSE q)

\* Series.rolling(3, center=True).median(): min_periods is the window size, so
\* a window that leaves the Series or holds a NaN gives NaN
RollingMedian3(v0) ==
    Once(v0, LAMBDA v :
        Tup([j \in 1..Len(v) |->
                IF j = 1 \/ j = Len(v) THEN NaN
                ELSE IF v[j - 1].nan \/ v[j].nan \/ v[j + 1].nan THEN NaN
                ELSE Median3(v[j - 1], v[j], v[j + 1])]))

\* lines 106-108: |dist - rolling median of dist|
DistAnomaly(g) ==
    Once(Col(g, "dist"), LAMBDA d :
        Once(RollingMedian3(d), LAMBDA m :
            Tup([j \in 1..Len(d) |-> NumAbs(Sub(d[j], m[j]))])))

KeepDispl_displOnly(g) ==
    Le(nanmax(AbsAll(Col(g, "displ"))), Int2Num(MAX_INST_DISPL))

\* lines 103-108
KeepDispl(g) ==
    /\ Le(nanmax(AbsAll(Col(g, "displ"))), Int2Num(MAX_INST_DISPL))
    /\ Lt(nanmax(DistAnomaly(g)), Int2Num(MAX_DIST_TRAVEL))

\* line 113: g.loc[1:, 'angVel'], the rows labelled 1 and more
FromLabelOne(g) == SelectSeq(g, LAMBDA r : r.index >= 1)

\* line 113: the smoothing call of the angular-velocity predicate
FilterSmooth(g) ==
    smooth_series_ML(SeriesOf(FromLabelOne(g), "angVel"), SM_WINDOW_FOR_FILTER)

\* lines 112-114
KeepAngVel(g) ==
    Once(FilterSmooth(g), LAMBDA out :
        /\ out.ok
        /\ Le(nanmax(AbsAll(Vals(out.ser))), Int2Num(MAX_ANG_VEL)))

KeepAngAccel_never(g) == TRUE

\* line 118
KeepAngAccel(g) ==
    Le(nanmax(AbsAll(Col(g, "angAccel"))), Int2Num(MAX_ANG_ACCEL))

\* lines 102-109: the epochs whose group passes
DisplKept(df) ==
    Once(grp_by_epoch(df), LAMBDA grps :
        {grps[k].epochNum : k \in {j \in 1..Len(grps) : KeepDispl(grps[j].g)}})

\* lines 111-115: the epochs whose group passes
AngVelKept(df) ==
    Once(grp_by_epoch(df), LAMBDA grps :
        {grps[k].epochNum : k \in {j \in 1..Len(grps) : KeepAngVel(grps[j].g)}})

\* lines 117-119: the epochs whose group passes
AngAccelKept(df) ==
    Once(grp_by_epoch(df), LAMBDA grps :
        {grps[k].epochNum : k \in {j \in 1..Len(grps) : KeepAngAccel(grps[j].g)}})

DisplFiltered(df) == GroupFilter(df, DisplKept(df))
AngVelFiltered(f1) == GroupFilter(f1, AngVelKept(f1))
AngAccelFiltered(f2) == GroupFilter(f2, AngAccelKept(f2))

\* whether a smooth_series_ML call of the second predicate raises
FilterSmoothRaises(f1) ==
    Once(grp_by_epoch(f1), LAMBDA grps :
        \E k \in 1..Len(grps) : ~FilterSmooth(grps[k].g).ok)

\* a raising smooth_series_ML call inside the second predicate ends the filter
displ_dist_vel_filter(df) ==
    Once(DisplFiltered(df), LAMBDA f1 :
        IF FilterSmoothRaises(f1) THEN [ok |-> FALSE, df |-> << >>]
        ELSE [ok |-> TRUE, df |-> AngAccelFiltered(AngVelFiltered(f1))])

---------------------------------------------------------------------------
(* analyze_dlm, lines 192-211: fish length, scaling, summary               *)

\* line 195: a row with the fish length len
FishLenRow(r, i, len) ==
    [index |-> i - 1,
     oriIndex |-> r.oriIndex,
     epochNum |-> r.epochNum,
     ang |-> r.ang,
     absy |-> r.absy,
     deltaT |-> r.deltaT,
     x |-> r.x,
     y |-> r.y,
     headx |-> r.headx,
     heady |-> r.heady,
     centeredAng |-> r.centeredAng,
     xvel |-> r.xvel,
     yvel |-> r.yvel,
     dist |-> r.dist,
     displ |-> r.displ,
     angVel |-> r.angVel,
     angVelSmoothed |-> r.angVelSmoothed,
     angAccel |-> r.angAccel,
     fishLen |-> len]

\* lines 192-195: the filtered rows relabelled 0, 1, ..., with the fish length
\* of the raw row labelled oriIndex (the raw table is labelled 0, 1, ...)
WithFishLen(f0, rawdf) ==
    Once(f0, LAMBDA f :
        Tup([i \in 1..Len(f) |->
                FishLenRow(f[i], i, rawdf[f[i].oriIndex + 1].fishLen)]))

\* line 203: / SCALE
Scaled(p) == Div(p, Int2Num(SCALE))

\* line 202: * -1 / SCALE
Flipped(p) == Div(Mul(p, Int2Num(-1)), Int2Num(SCALE))

\* lines 200-207: one row of res
ScaledRow(r) ==
    [index |-> r.index,
     oriIndex |-> r.oriIndex,
     epochNum |-> r.epochNum,
     ang |-> r.ang,
     absy |-> r.absy,
     deltaT |-> r.deltaT,
     x |-> Scaled(r.x),
     y |-> Flipped(r.y),
     headx |-> Scaled(r.headx),
     heady |-> Flipped(r.heady),
     centeredAng |-> r.centeredAng,
     xvel |-> Scaled(r.xvel),
     yvel |-> Flipped(r.yvel),
     dist |-> Scaled(r.dist),
     displ |-> Scaled(r.displ),
     angVel |-> r.angVel,
     angVelSmoothed |-> r.angVelSmoothed,
     angAccel |-> r.angAccel,
     fishLen |-> Scaled(r.fishLen),
     swimSpeed |-> Div(Scaled(r.dist), r.deltaT),
     velocity |-> Div(Scaled(r.displ), r.deltaT)]

\* lines 200-207
ScaledTable(f0) ==
    Once(f0, LAMBDA f : Tup([i \in 1..Len(f) |-> ScaledRow(f[i])]))

\* the k-th smallest (k = 1, 2, ...) of the defined numbers v
OrderStat(v, k) ==
    CHOOSE p \in {v[i] : i \in 1..Len(v)} :
        /\ Cardinality({i \in 1..Len(v) : Lt(v[i], p)}) < k
        /\ k <= Cardinality({i \in 1..Len(v) : Le(v[i], p)})

\* linear interpolation between the order statistics around position
\* 0.7 * (n - 1), lo the position rounded down
Interpolate70(v, lo) ==
    IF 7 * (Len(v) - 1) = 10 * lo THEN OrderStat(v, lo + 1)
    ELSE Add(OrderStat(v, lo + 1),
             Mul(Rat(7 * (Len(v) - 1) - 10 * lo, 10),
                 Sub(OrderStat(v, lo + 2), OrderStat(v, lo + 1))))

\* Series.quantile(0.7), over the defined values
Quantile70(vals) ==
    Once(SelectSeq(vals, LAMBDA p : ~p.nan), LAMBDA v :
        IF Len(v) = 0 THEN NaN
        ELSE Interpolate70(v, (7 * (Len(v) - 1)) \div 10))

\* lines 209-211: one row per epoch of res, in group order
FishLengthTable(r) ==
    Once(grp_by_epoch(r), LAMBDA grps :
        Tup([k \in 1..Len(grps) |->
                [index |-> k - 1,
                 epochNum |-> grps[k].epochNum,
                 fishLenEst |-> Quantile70(Col(grps[k].g, "fishLen"))]]))

---------------------------------------------------------------------------
(* analyze_dlm, lines 125-220, step by step                                *)

\* an undisturbed epoch that is long enough, and one that is too short
FillShapes ==
    {Shape(LongLen, "none", 0, 0),
     Shape(2 * EPOCH_BUF, "none", 0, 0)}

PipeShapes ==
    FillShapes \cup
    {Shape(LongLen, "gap", 50, 2),
     Shape(LongLen, "back", 0, 5),
     Shape(LongLen, "jump", 50, 40),
     Shape(LongLen, "jump", 50, 30),
     Shape(LongLen, "jump", EPOCH_BUF + 2, 30),
     Shape(LongLen, "turn", EPOCH_BUF + 2, 3),
     Shape(LongLen, "ramp", 50, 3),
     Shape(LongLen, "flick", 50, 11),
     Shape(LongLen, "blank", EPOCH_BUF + 1, 0)}

\* the recordings: up to MaxEpochs epochs, at most one of them disturbed
PipeTables ==
    {s \in SeqsUpTo(PipeShapes, MaxEpochs) :
        /\ s # << >>
        /\ Cardinality({i \in 1..Len(s) : s[i] \notin FillShapes}) <= 1}

Init ==
    /\ pc = "start"
    /\ \E shapes \in PipeTables : raw = MakeTable(shapes, 1, 0)
    /\ raw_truncate = NoTable /\ ana = NoTable /\ ana_f = NoTable
    /\ ana_ff = NoTable /\ res = NoTable /\ fish_length = NoTable
    /\ IdleSmooth

\* lines 134-159
Kinematics1 ==
    /\ pc = "truncated"
    /\ ana' = Kinematics1Table(raw_truncate)
    /\ pc' = "centered"
    /\ UNCHANGED <<raw, raw_truncate, ana_f, ana_ff, res, fish_length>>
    /\ UNCHANGED smVars

\* line 162
DurYXFilter ==
    /\ pc = "centered"
    /\ ana_f' = dur_y_x_filter(ana)
    /\ pc' = "oriented"
    /\ UNCHANGED <<raw, raw_truncate, ana, ana_ff, res, fish_length>>
    /\ UNCHANGED smVars

\* lines 167-189.  displ (lines 175-177) comes from GroupBy.apply with a
\* function that returns a Series labelled like its group: pandas concatenates
\* such results when their labels differ, which they do as soon as there are
\* two groups, and gives the per-epoch differences modelled here.  With one
\* group only the labels are trivially all the same, and pandas versions
\* stack the result into a one-row frame that assign cannot set as a column;
\* which outcome a build produces is left open.
Kinematics2Step ==
    /\ pc = "oriented"
    /\ \E out \in {Kinematics2(ana_f)} :
          \/ /\ out.ok
             /\ ana_f' = out.df
             /\ pc' = "derived"
          \/ /\ ~out.ok \/ out.groups = 1
             /\ ana_f' = ana_f
             /\ pc' = "raised"
    /\ UNCHANGED <<raw, raw_truncate, ana, ana_ff, res, fish_length>>
    /\ UNCHANGED smVars

\* lines 192-195
DisplDistVelFilter ==
    /\ pc = "derived"
    /\ \E out \in {displ_dist_vel_filter(ana_f)} :
          /\ ana_ff' = IF out.ok THEN WithFishLen(out.df, raw) ELSE ana_ff
          /\ pc' = IF out.ok THEN "plausible" ELSE "raised"
    /\ UNCHANGED <<raw, raw_truncate, ana, ana_f, res, fish_length>>
    /\ UNCHANGED smVars

\* lines 200-220
ScaleAndSummarise ==
    /\ pc = "plausible"
    /\ res' = ScaledTable(ana_ff)
    /\ fish_length' = FishLengthTable(res')
    /\ pc' = "returned"
    /\ UNCHANGED <<raw, raw_truncate, ana, ana_f, ana_ff>>
    /\ UNCHANGED smVars

Next ==
    \/ RawFilter
    \/ Kinematics1
    \/ DurYXFilter
    \/ Kinematics2Step
    \/ DisplDistVelFilter
    \/ ScaleAndSummarise

Spec == Init /\ [][Next]_vars

---------------------------------------------------------------------------
(* Properties of the structural filter                                     *)

Truncated == pc = "truncated"

EpochSet(df) == {df[i].epochNum : i \in 1..Len(df)}

\* the labels of the rows of epoch e of the raw table, in table order
RawLabels(e) == {raw[i].index : i \in {j \in 1..Len(raw) : raw[j].epochNum = e}}

\* the labels of epoch e that are neither among its first EPOCH_BUF nor among
\* its last EPOCH_BUF ones
InnerLabels(e) ==
    {l \in RawLabels(e) :
        /\ Cardinality({m \in RawLabels(e) : m < l}) >= EPOCH_BUF
        /\ Cardinality({m \in RawLabels(e) : m > l}) >= EPOCH_BUF}

FishNumAt(l) == raw[CHOOSE i \in 1..Len(raw) : raw[i].index = l].fishNum

\* C1 as stated: an epoch with a frame of fishNum = 2, wherever that frame
\* sits in the epoch, is absent from the structural filter's output.
C1_AnyFrameOfTwoExcludes ==
    Truncated =>
        \A e \in EpochSet(raw) :
            (\E l \in RawLabels(e) : FishNumAt(l) = 2)
                => e \notin EpochSet(raw_truncate)

\* C1 amended: an epoch with a frame of fishNum = 2 that is not one of its
\* first EPOCH_BUF or last EPOCH_BUF frames is absent from the structural
\* filter's output.
C1_KeptFrameOfTwoExcludes ==
    Truncated =>
        \A e \in EpochSet(raw) :
            (\E l \in InnerLabels(e) : FishNumAt(l) = 2)
                => e \notin EpochSet(raw_truncate)

\* an epoch long enough to be kept whose only frame of fishNum = 2 is an inner
\* one is gone, next to an epoch that was kept
C1_Witness ==
    /\ Truncated
    /\ raw_truncate # << >>
    /\ \E e \in EpochSet(raw) \ EpochSet(raw_truncate) :
          /\ Cardinality(InnerLabels(e)) >= 100
          /\ \E l \in InnerLabels(e) : FishNumAt(l) = 2
          /\ \A l \in RawLabels(e) \ InnerLabels(e) : FishNumAt(l) = 0

\* C2: an epoch of L frames, all of fishNum = 1, with L - 2*EPOCH_BUF >=
\* MIN_DUR is kept by the structural filter, with exactly its frames other than
\* the first EPOCH_BUF and the last EPOCH_BUF.
C2_SingleSubjectEpochKept ==
    Truncated =>
        \A e \in EpochSet(raw) :
            ( /\ \A l \in RawLabels(e) : FishNumAt(l) = 1
              /\ Ge(Int2Num(Cardinality(RawLabels(e)) - 2 * EPOCH_BUF), MIN_DUR) )
            => {raw_truncate[i].oriIndex :
                    i \in {j \in 1..Len(raw_truncate) :
                              raw_truncate[j].epochNum = e}}
               = InnerLabels(e)

---------------------------------------------------------------------------
(* Properties of the whole of analyze_dlm                                  *)

Returned == pc = "returned"

\* the rows of epoch e in df
GroupOf(df, e) == SelectSeq(df, LAMBDA r : r.epochNum = e)

\* the distance anomaly of g reaches MAX_DIST_TRAVEL at one of the frames lo
\* to the last but one
AnomalyFrom(g, lo) ==
    Once(DistAnomaly(g), LAMBDA an :
        \E j \in lo..(Len(an) - 1) : Ge(an[j], Int2Num(MAX_DIST_TRAVEL)))

\* the largest defined absolute value of the column col of epoch e in df
MaxAbs(df, e, col) == nanmax(AbsAll(Col(GroupOf(df, e), col)))

\* the epoch e has passed the predicate of every filter: long enough and of
\* no more than the allowed fishNum after trimming, without a gap in time,
\* heading where it moves, and within the bounds on displacement, distance
\* anomaly, smoothed angular velocity and angular acceleration
PassedEveryPredicate(e) ==
    /\ Ge(Int2Num(Len(GroupOf(raw_truncate, e))), MIN_DUR)
    /\ \A i \in 1..Len(raw_truncate) :
          raw_truncate[i].epochNum = e => raw_truncate[i].fishNum < MAX_FISH
    /\ Le(MaxAbs(ana, e, "deltaT"), MAX_DELTA_T)
    /\ KeepDirection(GroupOf(ana, e))
    /\ Le(MaxAbs(ana_f, e, "displ"), Int2Num(MAX_INST_DISPL))
    /\ ~AnomalyFrom(GroupOf(ana_f, e), 1)
    /\ KeepAngVel(GroupOf(ana_f, e))
    /\ Le(MaxAbs(ana_f, e, "angAccel"), Int2Num(MAX_ANG_ACCEL))

\* the epochs left by the three predicates of the plausibility filter narrow
\* in turn, down to those of ana_ff
PlausibilityNarrows ==
    Once(DisplFiltered(ana_f), LAMBDA f1 :
        Once(AngVelFiltered(f1), LAMBDA f2 :
            /\ EpochSet(f1) \subseteq EpochSet(ana_f)
            /\ EpochSet(f2) \subseteq EpochSet(f1)
            /\ EpochSet(AngAccelFiltered(f2)) \subseteq EpochSet(f2)
            /\ EpochSet(ana_ff) = EpochSet(AngAccelFiltered(f2))))

\* C3: the epochs surviving the structural filter, the orientation/timing
\* filter, the three predicates of the plausibility filter in turn and the two
\* output tables narrow from stage to stage, and an epoch of the output has
\* passed every predicate of every stage.
C3_MonotonicNarrowing ==
    /\ EpochSet(raw_truncate) \subseteq EpochSet(raw)
    /\ EpochSet(ana) \subseteq EpochSet(raw_truncate)
    /\ EpochSet(ana_f) \subseteq EpochSet(raw_truncate)
    /\ EpochSet(ana_ff) \subseteq EpochSet(ana_f)
    /\ EpochSet(res) \subseteq EpochSet(ana_ff)
    /\ EpochSet(fish_length) \subseteq EpochSet(res)
    /\ pc = "plausible" =>
          /\ PlausibilityNarrows
          /\ \A e \in EpochSet(ana_ff) : PassedEveryPredicate(e)
    /\ Returned =>
          /\ EpochSet(res) = EpochSet(ana_ff)
          /\ EpochSet(fish_length) = EpochSet(res)

\* an epoch came through every stage while another one was removed by the
\* plausibility filter
C3_Witness ==
    /\ Returned
    /\ EpochSet(res) # {}
    /\ EpochSet(ana_f) \ EpochSet(res) # {}

\* C5: when every epoch of the input is filtered out, analyze_dlm does not
\* raise (it returns two empty tables instead).
C5_EmptyResultIsNotAnError == ~(pc = "raised" /\ EpochSet(ana_f) = {})

---------------------------------------------------------------------------
(* Centering                                                               *)

Zero == Int2Num(0)

\* the raw row that the row r of a later table stems from (the raw table is
\* labelled 0, 1, ...)
RawRow(r) == raw[r.oriIndex + 1]

\* the positions at which an epoch of T begins
EpochStarts(rg) == {i \in 1..Len(rg) : rg[i][1] = i}

\* the row at position f of T, an epoch's first: its centered values are 0
FirstFrameZero(T, f) ==
    /\ T[f].x = Zero
    /\ T[f].y = Zero
    /\ T[f].headx = Zero
    /\ T[f].heady = Zero
    /\ T[f].centeredAng = Zero

\* the row at position i of T: its centered values are the absolute values
\* minus those of the row at position f
MinusFirstFrame(T, i, f) ==
    /\ T[i].x = Sub(RawRow(T[i]).absx, RawRow(T[f]).absx)
    /\ T[i].y = Sub(RawRow(T[i]).absy, RawRow(T[f]).absy)
    /\ T[i].headx = Sub(RawRow(T[i]).absHeadx, RawRow(T[f]).absHeadx)
    /\ T[i].heady = Sub(RawRow(T[i]).absHeady, RawRow(T[f]).absHeady)
    /\ T[i].centeredAng = Sub(RawRow(T[i]).ang, RawRow(T[f]).ang)

CenteredAsStated(T0) ==
    Once2(T0, RowGroups(T0), LAMBDA T, rg :
        \A f \in EpochStarts(rg) :
            /\ FirstFrameZero(T, f)
            /\ \A k \in 2..Len(rg[f]) : MinusFirstFrame(T, rg[f][k], f))

FirstDefinedAbs(T, P, c) ==
    IF ~RawRow(T[P[1]])[c].nan THEN RawRow(T[P[1]])[c]
    ELSE LET D == {k \in 1..Len(P) : ~RawRow(T[P[k]])[c].nan}
         IN  IF D = {} THEN NaN
             ELSE RawRow(T[P[CHOOSE k \in D : \A j \in D : k <= j]])[c]

\* the raw column c of the rows of T at the positions P, less its first
\* defined value
CenteredColumn(T, P, c) ==
    Once(FirstDefinedAbs(T, P, c), LAMBDA first :
        Tup([k \in 1..Len(P) |-> Sub(RawRow(T[P[k]])[c], first)]))

\* the column col of the rows of T at the positions P holds the values vals
ColumnIs(T, P, col, vals) ==
    Once(vals, LAMBDA v : \A k \in 1..Len(P) : T[P[k]][col] = v[k])

\* the rows of T at the positions P hold the centered values, in pixels
CenteredInPixels(T, P) ==
    /\ ColumnIs(T, P, "x", CenteredColumn(T, P, "absx"))
    /\ ColumnIs(T, P, "y", CenteredColumn(T, P, "absy"))
    /\ ColumnIs(T, P, "headx", CenteredColumn(T, P, "absHeadx"))
    /\ ColumnIs(T, P, "heady", CenteredColumn(T, P, "absHeady"))
    /\ ColumnIs(T, P, "centeredAng", CenteredColumn(T, P, "ang"))

\* the values v divided by SCALE
InMillimetres(v0) ==
    Once(v0, LAMBDA v : Tup([k \in 1..Len(v) |-> Div(v[k], Int2Num(SCALE))]))

\* the values v divided by SCALE and negated
InMillimetresUpwards(v0) ==
    Once(v0, LAMBDA v : Tup([k \in 1..Len(v) |-> Neg(Div(v[k], Int2Num(SCALE)))]))

\* the rows of T at the positions P hold the centered values, x and headx
\* divided by SCALE, y and heady divided by SCALE and negated, centeredAng as
\* it is
CenteredInMillimetres(T, P) ==
    /\ ColumnIs(T, P, "x", InMillimetres(CenteredColumn(T, P, "absx")))
    /\ ColumnIs(T, P, "y", InMillimetresUpwards(CenteredColumn(T, P, "absy")))
    /\ ColumnIs(T, P, "headx", InMillimetres(CenteredColumn(T, P, "absHeadx")))
    /\ ColumnIs(T, P, "heady",
                InMillimetresUpwards(CenteredColumn(T, P, "absHeady")))
    /\ ColumnIs(T, P, "centeredAng", CenteredColumn(T, P, "ang"))

\* the first frame of the epoch at the positions P has 0 in every centered
\* column whose absolute value is defined there
DefinedFirstFrameZero(T, P) ==
    /\ ~RawRow(T[P[1]]).absx.nan => T[P[1]].x = Zero
    /\ ~RawRow(T[P[1]]).absy.nan => T[P[1]].y = Zero
    /\ ~RawRow(T[P[1]]).absHeadx.nan => T[P[1]].headx = Zero
    /\ ~RawRow(T[P[1]]).absHeady.nan => T[P[1]].heady = Zero
    /\ ~RawRow(T[P[1]]).ang.nan => T[P[1]].centeredAng = Zero

---------------------------------------------------------------------------
(* Order of epochs and frames                                              *)

\* the epoch a occurs in the raw table before the epoch b does
OccursFirst(a, b) ==
    \E i \in 1..Len(raw) :
        /\ raw[i].epochNum = a
        /\ \A j \in 1..i : raw[j].epochNum # b

\* along T the frames of an epoch keep their order and a new epoch is one
\* that occurs later in the raw table than the one before
InInputOrder(T0) ==
    Once(T0, LAMBDA T :
        \A i \in 1..(Len(T) - 1) :
            IF T[i].epochNum = T[i + 1].epochNum
            THEN T[i].oriIndex < T[i + 1].oriIndex
            ELSE OccursFirst(T[i].epochNum, T[i + 1].epochNum))

\* fish_length has one row for each epoch of res, in the order of res
FishLengthInOrder ==
    /\ Len(fish_length) = Cardinality(EpochSet(res))
    /\ EpochSet(fish_length) = EpochSet(res)
    /\ \A k \in 1..(Len(fish_length) - 1) :
          \E i \in 1..Len(res) :
              /\ res[i].epochNum = fish_length[k].epochNum
              /\ \A j \in 1..i : res[j].epochNum # fish_length[k + 1].epochNum

\* C8: after every stage the surviving epochs appear in the order of their
\* first occurrence in the input, never sorted by epochNum, the frames of an
\* epoch keep their relative order, and the fish-length table lists the
\* epochs of the per-frame output in the same order, one row each.
C8_OrderPreserved ==
    /\ InInputOrder(raw_truncate)
    /\ InInputOrder(ana)
    /\ InInputOrder(ana_f)
    /\ InInputOrder(ana_ff)
    /\ InInputOrder(res)
    /\ Returned => FishLengthInOrder

\* two epochs are in the output, the one with the larger epochNum first
C8_Witness ==
    /\ Returned
    /\ Len(fish_length) >= 2
    /\ fish_length[1].epochNum > fish_length[2].epochNum
    /\ res[1].epochNum = fish_length[1].epochNum

---------------------------------------------------------------------------
(* Predicates of the plausibility filter                                   *)

\* the angVel of frames 2..end of the epoch g, smoothed with the window of
\* the filter
SmoothedFromSecondFrame(g) ==
    smooth_series_ML(SeriesOf(SubSeq(g, 2, Len(g)), "angVel"),
                     SM_WINDOW_FOR_FILTER)

\* the epoch g is kept exactly if the largest absolute smoothed angVel of its
\* frames 2..end is at most MAX_ANG_VEL
DecidedOnOwnFrames(g) ==
    KeepAngVel(g) <=>
        Le(nanmax(AbsAll(Vals(SmoothedFromSecondFrame(g).ser))),
           Int2Num(MAX_ANG_VEL))

\* C9: for every epoch of the table the angular-velocity predicate smooths
\* exactly the angVel of the epoch's frames 2..end, so that the epoch is kept
\* or dropped on its own frames alone, wherever it sits in the table.
C9_AngVelDecidedOnOwnFrames ==
    pc = "derived" =>
        Once(grp_by_epoch(DisplFiltered(ana_f)), LAMBDA grps :
            \A k \in 1..Len(grps) : DecidedOnOwnFrames(grps[k].g))

\* the distance anomaly of g is undefined at the first and the last frame and
\* defined at every frame between them
UndefinedOnlyAtEdges(g) ==
    Once(DistAnomaly(g), LAMBDA an :
        /\ an[1].nan
        /\ an[Len(an)].nan
        /\ \A j \in 2..(Len(an) - 1) : ~an[j].nan)

\* C10 as stated: the rolling median of dist is undefined only at the first
\* and the last frame of an epoch, |dist - median| is defined at every frame
\* from the second to the second-to-last, and a value >= MAX_DIST_TRAVEL at
\* such a frame excludes the epoch.
C10_MedianUndefinedOnlyAtEdges ==
    pc = "derived" =>
        Once2(grp_by_epoch(ana_f), EpochSet(DisplFiltered(ana_f)),
              LAMBDA grps, kept :
            \A k \in 1..Len(grps) :
                /\ UndefinedOnlyAtEdges(grps[k].g)
                /\ AnomalyFrom(grps[k].g, 2) => grps[k].epochNum \notin kept)

\* the distance anomaly of g is undefined exactly where the three frames
\* around a frame are not all in the epoch or not all of defined dist, the
\* first frame's dist being undefined
UndefinedWhereWindowIs(g) ==
    Once2(Col(g, "dist"), DistAnomaly(g), LAMBDA d, an :
        /\ d[1].nan
        /\ an[1].nan
        /\ an[2].nan
        /\ an[Len(an)].nan
        /\ \A j \in 3..(Len(an) - 1) :
              an[j].nan <=> (d[j - 1].nan \/ d[j].nan \/ d[j + 1].nan))

\* C10 amended: the rolling median of dist is undefined at the first, the
\* second and the last frame of an epoch (the first frame's dist is
\* undefined) and wherever one of the three dist values around a frame is
\* undefined; at every other frame |dist - median| is defined, and a value
\* >= MAX_DIST_TRAVEL there excludes the epoch.
C10_MedianUndefinedAtSecondFrameToo ==
    pc = "derived" =>
        Once2(grp_by_epoch(ana_f), EpochSet(DisplFiltered(ana_f)),
              LAMBDA grps, kept :
            \A k \in 1..Len(grps) :
                /\ UndefinedWhereWindowIs(grps[k].g)
                /\ AnomalyFrom(grps[k].g, 3) => grps[k].epochNum \notin kept)

\* an epoch with an anomaly of MAX_DIST_TRAVEL or more at a frame after the
\* second is about to be excluded
C10_Witness ==
    /\ pc = "derived"
    /\ \E e \in EpochSet(ana_f) \ EpochSet(DisplFiltered(ana_f)) :
          /\ AnomalyFrom(GroupOf(ana_f, e), 3)
          /\ KeepDispl_displOnly(GroupOf(ana_f, e))

=============================================================================
